---- MODULE Spec2Model ----
\* Model of js/script.js: the seven UI controllers of the theme script
\* (ThemeManager, MobileMenu, BackToTop, NavbarScroll, LazyLoader,
\* SmoothScroll, CodeCopy), the browser state they read and write, and the
\* browser events and timers that drive them.
EXTENDS Integers, Sequences, FiniteSets, TLC

\* ------------------------------------------------------------------
\* Program constants
\* ------------------------------------------------------------------
showThreshold == 300
scrollThreshold == 50
ThrottleLimit == 100
CopyRevertDelay == 2000

\* ------------------------------------------------------------------
\* Bounds of the model
\* ------------------------------------------------------------------
\* number of elements carrying [background-image-lazy] the page may hold
NumLazy == 2
\* clipboard writes that may be in flight at once
MaxPending == 2

\* localStorage.getItem returns null for a key that was never written
Null == "<null>"
\* values the key 'theme' may hold when the page loads: never written, the
\* empty string, the three values the script writes, and a foreign value
StoredValues == {Null, "", "theme-light", "theme-dark", "auto", "dark"}
ThemeIds == {"theme-light", "theme-dark", "theme-auto"}
\* vertical scroll offsets used by scroll events (around both thresholds)
Offsets == {0, 50, 51, 299, 300, 301}
\* elapsed time between two steps of the event loop, in ms
ScrollSteps == {50}
CopySteps == {1000}
LazyIds == 1 .. NumLazy

VARIABLES
  pc,            \* "loading" before init() has run, "ready" after
  htmlClasses,   \* document.documentElement.classList
  localStorage,  \* value of the key 'theme'
  activeBtns,    \* theme buttons carrying class 'active'
  themeBtns,     \* theme buttons present in the page (ids)
  osDark,        \* matchMedia('(prefers-color-scheme: dark)').matches
  themeOps,      \* history: the last two ThemeManager operations
  navBtn,        \* whether .navbar-btn is in the page
  navList,       \* whether .navbar-list is in the page
  navBtnClasses, \* navBtn.classList
  ariaExpanded,  \* navBtn's aria-expanded attribute (Null when absent)
  menuOps,       \* history: the last two menu events
  menuSnap,      \* history: <<class, attribute>> before each of them
  menuChanged,   \* history: some menu event has run toggle() or close()
  scrollY,       \* the document's vertical scroll offset
  btn,           \* whether .back-to-top-fixed is in the page
  btnClasses,    \* its classList
  navbar,        \* whether .navbar is in the page
  navbarClasses, \* its classList
  inThrottleB,   \* inThrottle of BackToTop's throttled scroll handler
  timerB,        \* ms until its setTimeout fires (-1: none pending)
  inThrottleN,   \* inThrottle of NavbarScroll's throttled scroll handler
  timerN,        \* ms until its setTimeout fires (-1: none pending)
  hasIO,         \* 'IntersectionObserver' in window
  lazyImages,    \* elements carrying [background-image-lazy]
  dataImg,       \* per element: dataset.img is a non-empty string
  observed,      \* targets of imageObserver
  rafPending,    \* per element: queued requestAnimationFrame callbacks
  bgImage,       \* per element: style.backgroundImage was set to url(img)
  loaded,        \* per element: classList contains 'loaded'
  reported,      \* history: an entry with isIntersecting was delivered
  bgSets,        \* history: number of assignments to style.backgroundImage
  lateEvent,     \* history: an observer callback ran after some load
  codeBlock,     \* whether a figure.highlight is in the page
  textContent,   \* the copy button's label (Null before it is created)
  copyClasses,   \* the copy button's classList
  pendingWrites, \* clipboard.writeText promises not yet settled
  copyTimers,    \* pending 2000 ms timers: sequence of [kind, left]
  shownFor,      \* history: ms since the label was last set to a result
  revertAfter,   \* history: shownFor when a timer last reverted a result
  storageOK,     \* whether window.localStorage can be read and written
  inited,        \* history: the controllers whose init() has returned
  lastReadB,     \* history: offset the last checkVisibility read (-1: none)
  lastReadN,     \* history: offset the last checkScroll read (-1: none)
  sinceB,        \* history: ms since BackToTop's throttled handler last ran
  sinceN,        \* history: ms since NavbarScroll's throttled handler ran
  gapB,          \* history: ms between its last two runs (-1: fewer than two)
  gapN,          \* history: the same for NavbarScroll's handler
  lastEvtB,      \* history: what BackToTop's throttle did with the last event
  lastEvtN,      \* history: what NavbarScroll's throttle did with it
  listeners,     \* history: the listeners and observers init() has bound
  pageIds,       \* the id attributes present in the document
  urlHash,       \* the fragment of the page's URL, without '#'
  anchorLog      \* history: what the last click on the document did

themeVars == <<localStorage, activeBtns, themeBtns, osDark, themeOps>>
menuVars == <<navBtn, navList, navBtnClasses, ariaExpanded, menuOps,
              menuSnap, menuChanged>>
scrollHist == <<lastReadB, lastReadN, sinceB, sinceN, gapB, gapN, lastEvtB,
                lastEvtN>>
scrollVars == <<scrollY, btn, btnClasses, navbar, navbarClasses,
                inThrottleB, timerB, inThrottleN, timerN, scrollHist>>
lazyVars == <<hasIO, lazyImages, dataImg, observed, rafPending, bgImage,
              loaded, reported, bgSets, lateEvent>>
copyVars == <<codeBlock, textContent, copyClasses, pendingWrites,
              copyTimers, shownFor, revertAfter>>
envVars == <<storageOK, inited, listeners>>
anchorVars == <<pageIds, urlHash, anchorLog>>
vars == <<pc, htmlClasses, themeVars, menuVars, scrollVars, lazyVars,
          copyVars, envVars, anchorVars>>

\* ------------------------------------------------------------------
\* Helpers
\* ------------------------------------------------------------------
\* JavaScript truthiness of a string-or-null
Falsy(v) == v \in {Null, ""}
\* String(b), as setAttribute converts a boolean argument
ToAttr(b) == IF b THEN "true" ELSE "false"
Push(h, op) == <<h[2], op>>

\* getScrollTop: the first truthy of pageYOffset, documentElement.scrollTop,
\* body.scrollTop, else 0
getScrollTopOf(pageYOffset, docScrollTop, bodyScrollTop) ==
  IF pageYOffset # 0 THEN pageYOffset
  ELSE IF docScrollTop # 0 THEN docScrollTop
  ELSE IF bodyScrollTop # 0 THEN bodyScrollTop
  ELSE 0
\* in a standards-mode document the root element is the scrolling element
getScrollTop(y) == getScrollTopOf(y, y, 0)

\* ------------------------------------------------------------------
\* ThemeManager
\* ------------------------------------------------------------------
\* updateActiveButton, given the value getItem('theme') returns
updateActiveButton(saved) ==
  LET currentTheme == IF Falsy(saved) THEN "auto" ELSE saved
      target == IF currentTheme = "theme-light" THEN "theme-light"
                ELSE IF currentTheme = "theme-dark" THEN "theme-dark"
                ELSE "theme-auto"
  IN  {target} \cap themeBtns

setLightThemeKeepDark ==
  /\ htmlClasses' = htmlClasses \cup {"theme-light"}
  /\ localStorage' = "theme-light"
  /\ activeBtns' = updateActiveButton("theme-light")

setLightTheme ==
  /\ htmlClasses' = (htmlClasses \ {"theme-dark"}) \cup {"theme-light"}
  /\ localStorage' = "theme-light"
  /\ activeBtns' = updateActiveButton("theme-light")

setDarkTheme ==
  /\ htmlClasses' = (htmlClasses \ {"theme-light"}) \cup {"theme-dark"}
  /\ localStorage' = "theme-dark"
  /\ activeBtns' = updateActiveButton("theme-dark")

setAutoThemeKeepDark ==
  /\ htmlClasses' = htmlClasses \ {"theme-light"}
  /\ localStorage' = "auto"
  /\ activeBtns' = updateActiveButton("auto")

setAutoTheme ==
  /\ htmlClasses' = htmlClasses \ {"theme-light", "theme-dark"}
  /\ localStorage' = "auto"
  /\ activeBtns' = updateActiveButton("auto")

loadThemeAlwaysAuto ==
  setAutoTheme

loadTheme ==
  LET savedTheme == localStorage
  IN  IF savedTheme = "theme-light" THEN setLightTheme
      ELSE IF savedTheme = "theme-dark" THEN setDarkTheme
      ELSE setAutoTheme

\* ThemeManager.init: loadTheme, bindEvents, updateActiveButton
ThemeManagerInit ==
  /\ loadTheme
  /\ activeBtns' = updateActiveButton(localStorage')
  /\ themeOps' = Push(themeOps, "init")
  /\ UNCHANGED <<themeBtns, osDark>>

\* the matchMedia 'change' listener, for an event with e.matches = matches
onSchemeChangeUnguarded(matches) ==
  /\ htmlClasses' = IF matches THEN htmlClasses \cup {"theme-dark"}
                    ELSE htmlClasses \ {"theme-dark"}
  /\ UNCHANGED <<localStorage, activeBtns>>

onSchemeChange(matches) ==
  LET currentTheme == localStorage
  IN  /\ htmlClasses' =
           IF Falsy(currentTheme) \/ currentTheme = "auto"
           THEN IF matches THEN htmlClasses \cup {"theme-dark"}
                ELSE htmlClasses \ {"theme-dark"}
           ELSE htmlClasses
      /\ UNCHANGED <<localStorage, activeBtns>>

\* click on #theme-light
ClickLight ==
  /\ pc = "ready" /\ "theme-light" \in themeBtns
  /\ setLightTheme
  /\ themeOps' = Push(themeOps, "setLight")
  /\ UNCHANGED <<themeBtns, osDark, menuVars, scrollVars, lazyVars,
                 copyVars, pc, envVars, anchorVars>>

\* click on #theme-dark
ClickDark ==
  /\ pc = "ready" /\ "theme-dark" \in themeBtns
  /\ setDarkTheme
  /\ themeOps' = Push(themeOps, "setDark")
  /\ UNCHANGED <<themeBtns, osDark, menuVars, scrollVars, lazyVars,
                 copyVars, pc, envVars, anchorVars>>

\* click on #theme-auto
ClickAuto ==
  /\ pc = "ready" /\ "theme-auto" \in themeBtns
  /\ setAutoTheme
  /\ themeOps' = Push(themeOps, "setAuto")
  /\ UNCHANGED <<themeBtns, osDark, menuVars, scrollVars, lazyVars,
                 copyVars, pc, envVars, anchorVars>>

\* loadTheme invoked again on the live page
LoadTheme ==
  /\ pc = "ready"
  /\ loadTheme
  /\ themeOps' = Push(themeOps, "load")
  /\ UNCHANGED <<themeBtns, osDark, menuVars, scrollVars, lazyVars,
                 copyVars, pc, envVars, anchorVars>>

\* the OS color scheme changes: the media query flips, its listener runs
SchemeChange ==
  /\ pc = "ready"
  /\ osDark' = ~osDark
  /\ onSchemeChange(osDark')
  /\ themeOps' = Push(themeOps, "os")
  /\ UNCHANGED <<themeBtns, menuVars, scrollVars, lazyVars, copyVars, pc, envVars, anchorVars>>

\* ------------------------------------------------------------------
\* MobileMenu
\* ------------------------------------------------------------------
\* the part of the page MobileMenu reads and writes
menuState == [html |-> htmlClasses, btnClasses |-> navBtnClasses,
              aria |-> ariaExpanded]
IsOpen(m) == "show-mobile-nav" \in m.html
\* classList.toggle
ClassToggle(classes, c) ==
  IF c \in classes THEN classes \ {c} ELSE classes \cup {c}

toggleStaleAria(m) ==
  [html |-> ClassToggle(m.html, "show-mobile-nav"),
   btnClasses |-> ClassToggle(m.btnClasses, "active"),
   aria |-> ToAttr(IsOpen(m))]

toggle(m) ==
  LET html2 == ClassToggle(m.html, "show-mobile-nav")
      isExpanded == "show-mobile-nav" \in html2
  IN  [html |-> html2,
       btnClasses |-> ClassToggle(m.btnClasses, "active"),
       aria |-> ToAttr(isExpanded)]

\* defined by the script, called by none of its listeners
open(m) ==
  [html |-> m.html \cup {"show-mobile-nav"},
   btnClasses |-> m.btnClasses \cup {"active"},
   aria |-> "true"]

close(m) ==
  [html |-> m.html \ {"show-mobile-nav"},
   btnClasses |-> m.btnClasses \ {"active"},
   aria |-> "false"]

\* keys a keydown event may carry
Keys == {"Enter", " ", "Escape", "Tab"}
\* elements inside .navbar-list a click may land on: a link itself, an
\* element nested in a link, an element outside any link
Targets == {[tagName |-> "A", inLink |-> TRUE],
            [tagName |-> "SPAN", inLink |-> TRUE],
            [tagName |-> "LI", inLink |-> FALSE]}

\* keydown listener of the button: <<menu state, defaultPrevented, ran>>
onBtnKeydown(m, key) ==
  IF key = "Enter" \/ key = " "
  THEN [m |-> toggle(m), defaultPrevented |-> TRUE, ran |-> "toggle"]
  ELSE [m |-> m, defaultPrevented |-> FALSE, ran |-> "none"]

\* click listener of .navbar-list
onNavListClick(m, target) ==
  IF target.tagName = "A" /\ IsOpen(m)
  THEN [m |-> close(m), ran |-> "close"]
  ELSE [m |-> m, ran |-> "none"]

\* keydown listener of the document
onDocKeydown(m, key) ==
  IF key = "Escape" /\ IsOpen(m)
  THEN [m |-> close(m), ran |-> "close"]
  ELSE [m |-> m, ran |-> "none"]

\* what an event that ran `ran` leaves behind, with its history record
MenuStep(m2, ev, arg, ran) ==
  /\ htmlClasses' = m2.html
  /\ navBtnClasses' = m2.btnClasses
  /\ ariaExpanded' = m2.aria
  /\ menuOps' = Push(menuOps, [ev |-> ev, arg |-> arg, ran |-> ran])
  /\ menuSnap' = Push(menuSnap, <<IsOpen(menuState), ariaExpanded>>)
  /\ menuChanged' = (menuChanged \/ ran # "none")
  /\ UNCHANGED <<navBtn, navList, themeVars, scrollVars, lazyVars,
                 copyVars, pc, envVars, anchorVars>>

\* pointer click on .navbar-btn
NavBtnClick ==
  /\ pc = "ready" /\ navBtn
  /\ MenuStep(toggle(menuState), "btnClick", "", "toggle")

\* keydown with the button focused: the button's listener, then the
\* document's (the event bubbles), then the key's default action, which for
\* Enter and Space is a click on the button unless it was prevented
NavBtnKeydown ==
  /\ pc = "ready" /\ navBtn
  /\ \E key \in Keys :
       LET r1 == onBtnKeydown(menuState, key)
           r2 == onDocKeydown(r1.m, key)
           activates == key \in {"Enter", " "} /\ ~r1.defaultPrevented
           m3 == IF activates THEN toggle(r2.m) ELSE r2.m
           ran == IF activates /\ r1.ran = "toggle" THEN "toggle,toggle"
                  ELSE IF activates THEN "toggle"
                  ELSE IF r1.ran # "none" THEN r1.ran ELSE r2.ran
       IN  MenuStep(m3, "btnKeydown", key, ran)

\* what an event leaves behind that no listener of MobileMenu hears
Unheard(m) == [m |-> m, ran |-> "none"]

\* click inside .navbar-list
NavListClick ==
  /\ pc = "ready" /\ navList
  /\ \E target \in Targets :
       LET r == IF <<"MobileMenu", "navList", "click">> \in listeners
                THEN onNavListClick(menuState, target)
                ELSE Unheard(menuState)
       IN  MenuStep(r.m, "navListClick",
                    IF target.inLink THEN "link" ELSE "other", r.ran)

\* keydown anywhere but on the button
DocKeydown ==
  /\ pc = "ready"
  /\ \E key \in Keys :
       LET r == IF <<"MobileMenu", "document", "keydown">> \in listeners
                THEN onDocKeydown(menuState, key)
                ELSE Unheard(menuState)
       IN  MenuStep(r.m, "docKeydown", key, r.ran)

\* click on the page outside .navbar-btn and .navbar-list: bindEvents
\* registers no listener that such a click reaches
OutsideClick ==
  /\ pc = "ready" /\ navBtn
  /\ MenuStep(menuState, "outsideClick", "", "none")

\* ------------------------------------------------------------------
\* throttle, BackToTop, NavbarScroll
\* ------------------------------------------------------------------
\* the function throttle(func, limit) returns, called once: st is the
\* closure's state with the classes func writes, result what func would
\* write
throttleNoWindow(st, result) ==
  [classes |-> result, inThrottle |-> FALSE, timer |-> st.timer,
   called |-> TRUE]

throttle(st, result) ==
  IF ~st.inThrottle
  THEN [classes |-> result, inThrottle |-> TRUE, timer |-> ThrottleLimit,
        called |-> TRUE]
  ELSE [st EXCEPT !.called = FALSE]

checkVisibilityStrict(classes, y) ==
  LET scrollTop == getScrollTop(y)
  IN  IF scrollTop > showThreshold THEN classes \cup {"show"}
      ELSE classes \ {"show"}

checkVisibility(classes, y) ==
  LET scrollTop == getScrollTop(y)
  IN  IF scrollTop >= showThreshold THEN classes \cup {"show"}
      ELSE classes \ {"show"}

checkScrollInclusive(classes, y) ==
  LET scrollTop == getScrollTop(y)
  IN  IF scrollTop >= scrollThreshold THEN classes \cup {"scrolled"}
      ELSE classes \ {"scrolled"}

checkScroll(classes, y) ==
  LET scrollTop == getScrollTop(y)
  IN  IF scrollTop > scrollThreshold THEN classes \cup {"scrolled"}
      ELSE classes \ {"scrolled"}

\* the document scrolls to offset y and the scroll event is dispatched to
\* the listeners BackToTop and NavbarScroll registered
\* history of one throttled handler after a scroll event: r is what
\* throttle returned, wasOpen whether its window was open before the event
EventOutcome(r, wasOpen) ==
  IF r.called THEN "handled" ELSE IF wasOpen THEN "dropped" ELSE "missed"

ScrollTo(y) ==
  LET b == throttle([classes |-> btnClasses, inThrottle |-> inThrottleB,
                     timer |-> timerB, called |-> FALSE],
                    checkVisibility(btnClasses, y))
      n == throttle([classes |-> navbarClasses, inThrottle |-> inThrottleN,
                     timer |-> timerN, called |-> FALSE],
                    checkScroll(navbarClasses, y))
  IN  /\ scrollY' = y
      /\ IF btn
         THEN /\ btnClasses' = b.classes
              /\ inThrottleB' = b.inThrottle
              /\ timerB' = b.timer
              /\ lastReadB' = IF b.called THEN y ELSE lastReadB
              /\ sinceB' = IF b.called THEN 0 ELSE sinceB
              /\ gapB' = IF b.called /\ sinceB >= 0 THEN sinceB ELSE gapB
              /\ lastEvtB' = EventOutcome(b, inThrottleB)
         ELSE UNCHANGED <<btnClasses, inThrottleB, timerB, lastReadB, sinceB,
                          gapB, lastEvtB>>
      /\ IF navbar
         THEN /\ navbarClasses' = n.classes
              /\ inThrottleN' = n.inThrottle
              /\ timerN' = n.timer
              /\ lastReadN' = IF n.called THEN y ELSE lastReadN
              /\ sinceN' = IF n.called THEN 0 ELSE sinceN
              /\ gapN' = IF n.called /\ sinceN >= 0 THEN sinceN ELSE gapN
              /\ lastEvtN' = EventOutcome(n, inThrottleN)
         ELSE UNCHANGED <<navbarClasses, inThrottleN, timerN, lastReadN,
                          sinceN, gapN, lastEvtN>>
      /\ UNCHANGED <<btn, navbar>>

\* the user scrolls
ScrollEvent ==
  /\ pc = "ready"
  /\ \E y \in Offsets \ {scrollY} : ScrollTo(y)
  /\ UNCHANGED <<htmlClasses, themeVars, menuVars, lazyVars, copyVars, pc, envVars, anchorVars>>

\* click on .back-to-top-fixed: scrollToTop, and the scroll it requests
BackToTopClick ==
  /\ pc = "ready" /\ btn /\ scrollY # 0
  /\ ScrollTo(0)
  /\ UNCHANGED <<htmlClasses, themeVars, menuVars, lazyVars, copyVars, pc, envVars, anchorVars>>

\* the setTimeout callback of BackToTop's throttle
ThrottleTimeoutB ==
  /\ timerB = 0
  /\ inThrottleB' = FALSE
  /\ timerB' = -1
  /\ UNCHANGED <<scrollY, btn, btnClasses, navbar, navbarClasses,
                 inThrottleN, timerN, scrollHist, htmlClasses, themeVars, menuVars,
                 lazyVars, copyVars, pc, envVars, anchorVars>>

\* the setTimeout callback of NavbarScroll's throttle
ThrottleTimeoutN ==
  /\ timerN = 0
  /\ inThrottleN' = FALSE
  /\ timerN' = -1
  /\ UNCHANGED <<scrollY, btn, btnClasses, navbar, navbarClasses,
                 inThrottleB, timerB, scrollHist, htmlClasses, themeVars, menuVars,
                 lazyVars, copyVars, pc, envVars, anchorVars>>

\* BackToTop.init: nothing without the control, else bindEvents and
\* checkVisibility
BackToTopInit ==
  IF btn
  THEN /\ btnClasses' = checkVisibility(btnClasses, scrollY)
       /\ lastReadB' = scrollY
  ELSE UNCHANGED <<btnClasses, lastReadB>>

\* NavbarScroll.init: nothing without the navbar, else bindEvents and
\* checkScroll
NavbarScrollInit ==
  IF navbar
  THEN /\ navbarClasses' = checkScroll(navbarClasses, scrollY)
       /\ lastReadN' = scrollY
  ELSE UNCHANGED <<navbarClasses, lastReadN>>

\* ------------------------------------------------------------------
\* LazyLoader
\* ------------------------------------------------------------------
\* loadImage(element) for every element of `elements`: the animation-frame
\* callbacks queued afterwards (none for an element without data-img)
loadImage(elements, queued) ==
  [e \in LazyIds |->
     IF e \in elements /\ dataImg[e] THEN queued[e] + 1 ELSE queued[e]]

\* the IntersectionObserver callback, for a batch of entries
\* (target -> isIntersecting)
observerCallbackKeepObserving(entries) ==
  LET hit == {e \in DOMAIN entries : entries[e]}
  IN  /\ rafPending' = loadImage(hit, rafPending)
      /\ observed' = observed
      /\ reported' = [e \in LazyIds |-> reported[e] \/ e \in hit]

observerCallback(entries) ==
  LET hit == {e \in DOMAIN entries : entries[e]}
  IN  /\ rafPending' = loadImage(hit, rafPending)
      /\ observed' = observed \ hit
      /\ reported' = [e \in LazyIds |-> reported[e] \/ e \in hit]

\* the observer delivers entries for some of its targets
IntersectionEvent ==
  /\ pc = "ready"
  /\ \E targets \in (SUBSET observed) \ {{}} :
       \E entries \in [targets -> BOOLEAN] : observerCallback(entries)
  /\ lateEvent' = (lateEvent \/ \E e \in LazyIds : loaded[e])
  /\ UNCHANGED <<hasIO, lazyImages, dataImg, bgImage, loaded, bgSets,
                 htmlClasses, themeVars, menuVars, scrollVars, copyVars, pc, envVars, anchorVars>>

\* the next animation frame runs every queued callback
AnimationFrame ==
  /\ \E e \in LazyIds : rafPending[e] > 0
  /\ bgImage' = [e \in LazyIds |-> bgImage[e] \/ rafPending[e] > 0]
  /\ loaded' = [e \in LazyIds |-> loaded[e] \/ rafPending[e] > 0]
  /\ bgSets' = [e \in LazyIds |-> bgSets[e] + rafPending[e]]
  /\ rafPending' = [e \in LazyIds |-> 0]
  /\ UNCHANGED <<hasIO, lazyImages, dataImg, observed, reported, lateEvent,
                 htmlClasses, themeVars, menuVars, scrollVars, copyVars, pc, envVars, anchorVars>>

LazyLoaderInitNoFallback ==
  /\ rafPending' = rafPending
  /\ observed' = lazyImages

\* LazyLoader.init: loadAllImages without IntersectionObserver, else
\* observeImages
LazyLoaderInit ==
  IF ~hasIO
  THEN /\ rafPending' = loadImage(lazyImages, rafPending)
       /\ observed' = observed
  ELSE /\ rafPending' = rafPending
       /\ observed' = lazyImages

\* ------------------------------------------------------------------
\* CodeCopy
\* ------------------------------------------------------------------
Results == {"Copied!", "Failed"}

\* click on the copy button: clipboard.writeText is called and awaited
CopyClick ==
  /\ pc = "ready" /\ textContent # Null
  /\ pendingWrites + Len(copyTimers) < MaxPending
  /\ pendingWrites' = pendingWrites + 1
  /\ UNCHANGED <<codeBlock, textContent, copyClasses, copyTimers, shownFor,
                 revertAfter, htmlClasses, themeVars, menuVars, scrollVars,
                 lazyVars, pc, envVars, anchorVars>>

\* the awaited promise resolves: the rest of the try block
WriteResolved ==
  /\ pendingWrites > 0
  /\ pendingWrites' = pendingWrites - 1
  /\ textContent' = "Copied!"
  /\ copyClasses' = copyClasses \cup {"copied"}
  /\ copyTimers' = Append(copyTimers,
                          [kind |-> "copied", left |-> CopyRevertDelay])
  /\ shownFor' = 0
  /\ UNCHANGED <<codeBlock, revertAfter, htmlClasses, themeVars, menuVars,
                 scrollVars, lazyVars, pc, envVars, anchorVars>>

\* the awaited promise rejects (or writeText throws): the catch block
WriteRejected ==
  /\ pendingWrites > 0
  /\ pendingWrites' = pendingWrites - 1
  /\ textContent' = "Failed"
  /\ copyTimers' = Append(copyTimers,
                          [kind |-> "failed", left |-> CopyRevertDelay])
  /\ shownFor' = 0
  /\ UNCHANGED <<codeBlock, copyClasses, revertAfter, htmlClasses,
                 themeVars, menuVars, scrollVars, lazyVars, pc, envVars, anchorVars>>

CopyTimeoutLabelOnly ==
  /\ copyTimers # << >> /\ Head(copyTimers).left = 0
  /\ textContent' = "Copy"
  /\ copyTimers' = Tail(copyTimers)
  /\ revertAfter' = IF textContent \in Results THEN shownFor
                    ELSE revertAfter
  /\ shownFor' = 0
  /\ UNCHANGED <<codeBlock, copyClasses, pendingWrites, htmlClasses,
                 themeVars, menuVars, scrollVars, lazyVars, pc, envVars, anchorVars>>

\* the oldest pending setTimeout callback of the button runs
CopyTimeout ==
  /\ copyTimers # << >> /\ Head(copyTimers).left = 0
  /\ textContent' = "Copy"
  /\ copyClasses' = IF Head(copyTimers).kind = "copied"
                    THEN copyClasses \ {"copied"} ELSE copyClasses
  /\ copyTimers' = Tail(copyTimers)
  /\ revertAfter' = IF textContent \in Results THEN shownFor
                    ELSE revertAfter
  /\ shownFor' = 0
  /\ UNCHANGED <<codeBlock, pendingWrites, htmlClasses, themeVars, menuVars,
                 scrollVars, lazyVars, pc, envVars, anchorVars>>

\* CodeCopy.init: addCopyButton for the code block
CodeCopyInit ==
  textContent' = IF codeBlock THEN "Copy" ELSE textContent

\* ------------------------------------------------------------------
\* SmoothScroll
\* ------------------------------------------------------------------
\* An href or a selector is a sequence of characters. The characters that
\* may start a CSS identifier, and those that may follow
IdentStart == {"a", "_"}
IdentChar == IdentStart \cup {"1", "-"}
\* hrefs of the links a click may land in; NoLink: the click is in no
\* a[href^="#"]
Hrefs == {<<"#">>, <<"#", "a">>, <<"#", "1">>, <<"#", "a", ":", "1">>}
NoLink == << >>
Ids == {Tail(h) : h \in Hrefs} \ {<< >>}
NoClick == [clicked |-> FALSE, href |-> NoLink, resolves |-> FALSE,
            prevented |-> FALSE, scrolled |-> FALSE, pushed |-> FALSE,
            threw |-> FALSE]

\* sel parses as '#' followed by an identifier
IsIdSelector(sel) ==
  /\ Len(sel) >= 2
  /\ sel[1] = "#"
  /\ sel[2] \in IdentStart
  /\ \A i \in 3 .. Len(sel) : sel[i] \in IdentChar

\* document.querySelector for a selector that begins with '#': a
\* SyntaxError for what is no selector, else whether an element matches
querySelector(sel) ==
  IF ~IsIdSelector(sel) THEN [threw |-> TRUE, found |-> FALSE]
  ELSE [threw |-> FALSE, found |-> Tail(sel) \in pageIds]

\* the element the browser itself scrolls to for this href: the one whose
\* id is the fragment
Resolves(href) == Len(href) >= 2 /\ Tail(href) \in pageIds

\* document offset of every element with an id, and height of the navbar
elementTop == 400
navbarHeight == IF navbar THEN 60 ELSE 0
ScrollMargin == 20

\* the click listener of the document, for a click inside link `href`
onDocumentClick(href) ==
  LET nothing == [NoClick EXCEPT !.clicked = TRUE, !.href = href,
                                 !.resolves = Resolves(href)]
      q == querySelector(href)
  IN  IF href = NoLink THEN nothing
      ELSE IF href = <<"#">> THEN nothing
      ELSE IF q.threw THEN [nothing EXCEPT !.threw = TRUE]
      ELSE IF ~q.found THEN nothing
      ELSE [nothing EXCEPT !.prevented = TRUE, !.scrolled = TRUE,
                           !.pushed = TRUE]

\* the window scrolls to y; no scroll event if it is there already
ScrollIfMoved(y) ==
  IF y = scrollY THEN UNCHANGED scrollVars ELSE ScrollTo(y)

\* a click on the document: the listener, then, unless it called
\* preventDefault, the browser's navigation to the fragment. The smooth
\* scroll is taken at its arrival.
AnchorClick ==
  /\ pc = "ready"
  /\ \E href \in Hrefs \cup {NoLink} :
       LET r == onDocumentClick(href)
           targetPosition == elementTop - navbarHeight - ScrollMargin
       IN  /\ anchorLog' = r
           /\ urlHash' = IF href = NoLink THEN urlHash ELSE Tail(href)
           /\ IF r.scrolled THEN ScrollIfMoved(targetPosition)
              ELSE IF href = NoLink THEN UNCHANGED scrollVars
              ELSE IF href = <<"#">> THEN ScrollIfMoved(0)
              ELSE IF Resolves(href) THEN ScrollIfMoved(elementTop)
              ELSE UNCHANGED scrollVars
  /\ UNCHANGED <<pageIds, htmlClasses, themeVars, menuVars, lazyVars,
                 copyVars, pc, envVars>>

\* ------------------------------------------------------------------
\* Time
\* ------------------------------------------------------------------
\* ms left on every pending timer
PendingLeft ==
  {t \in {timerB, timerN} : t >= 0}
    \cup {copyTimers[i].left : i \in 1 .. Len(copyTimers)}

\* a stopwatch started at a handler's last run, d ms later; it stops
\* counting at the throttle limit, beyond which the exact value is not used
Elapsed(since, d) ==
  IF since < 0 THEN since
  ELSE IF since + d > ThrottleLimit THEN ThrottleLimit ELSE since + d

\* d ms pass; a timer fires when its delay has elapsed, so time does not pass
\* a pending timer's deadline
Tick(d) ==
  /\ pc = "ready"
  /\ \A t \in PendingLeft : d <= t
  /\ timerB' = IF timerB >= 0 THEN timerB - d ELSE timerB
  /\ timerN' = IF timerN >= 0 THEN timerN - d ELSE timerN
  /\ copyTimers' = [i \in 1 .. Len(copyTimers) |->
                      [copyTimers[i] EXCEPT !.left = @ - d]]
  /\ shownFor' = IF textContent \in Results THEN shownFor + d ELSE shownFor
  /\ sinceB' = Elapsed(sinceB, d)
  /\ sinceN' = Elapsed(sinceN, d)
  /\ UNCHANGED <<scrollY, btn, btnClasses, navbar, navbarClasses,
                 inThrottleB, inThrottleN, lastReadB, lastReadN, gapB, gapN,
                 lastEvtB, lastEvtN, codeBlock, textContent,
                 copyClasses, pendingWrites, revertAfter, htmlClasses,
                 themeVars, menuVars, lazyVars, pc, envVars, anchorVars>>

\* ------------------------------------------------------------------
\* init(): the seven controllers, in order
\* ------------------------------------------------------------------
Controllers == {"ThemeManager", "MobileMenu", "BackToTop", "NavbarScroll",
                "LazyLoader", "SmoothScroll", "CodeCopy"}

\* the listeners and observers each controller's init() binds
\* <<controller, target, event>>
ThemeManagerListeners ==
  {<<"ThemeManager", b, "click">> : b \in themeBtns}
    \cup {<<"ThemeManager", "matchMedia", "change">>}

MobileMenuListenersUnguarded ==
  {<<"MobileMenu", "navBtn", "click">>,
   <<"MobileMenu", "navBtn", "keydown">>,
   <<"MobileMenu", "document", "keydown">>}
    \cup (IF navList THEN {<<"MobileMenu", "navList", "click">>} ELSE {})

MobileMenuListeners ==
  IF ~navBtn THEN {}
  ELSE {<<"MobileMenu", "navBtn", "click">>,
        <<"MobileMenu", "navBtn", "keydown">>,
        <<"MobileMenu", "document", "keydown">>}
         \cup (IF navList THEN {<<"MobileMenu", "navList", "click">>}
               ELSE {})

BackToTopListeners ==
  IF ~btn THEN {}
  ELSE {<<"BackToTop", "btn", "click">>, <<"BackToTop", "window", "scroll">>}

NavbarScrollListeners ==
  IF ~navbar THEN {} ELSE {<<"NavbarScroll", "window", "scroll">>}

LazyLoaderListeners ==
  IF hasIO /\ lazyImages # {}
  THEN {<<"LazyLoader", "imageObserver", "intersection">>} ELSE {}

SmoothScrollListeners == {<<"SmoothScroll", "document", "click">>}

CodeCopyListeners ==
  IF codeBlock THEN {<<"CodeCopy", "copyBtn", "click">>} ELSE {}

PageInit ==
  /\ pc = "loading"
  /\ storageOK
  /\ pc' = "ready"
  /\ inited' = Controllers
  /\ listeners' = ThemeManagerListeners \cup MobileMenuListeners
                    \cup BackToTopListeners \cup NavbarScrollListeners
                    \cup LazyLoaderListeners \cup SmoothScrollListeners
                    \cup CodeCopyListeners
  /\ UNCHANGED <<storageOK, anchorVars>>
  /\ ThemeManagerInit
  /\ UNCHANGED <<navBtn, navList, navBtnClasses, ariaExpanded, menuOps,
                 menuSnap, menuChanged>>
  /\ BackToTopInit
  /\ NavbarScrollInit
  /\ UNCHANGED <<scrollY, btn, navbar, inThrottleB, timerB, inThrottleN,
                 timerN, sinceB, sinceN, gapB, gapN, lastEvtB, lastEvtN>>
  /\ LazyLoaderInit
  /\ UNCHANGED <<hasIO, lazyImages, dataImg, bgImage, loaded, reported,
                 bgSets, lateEvent>>
  /\ CodeCopyInit
  /\ UNCHANGED <<codeBlock, copyClasses, pendingWrites, copyTimers,
                 shownFor, revertAfter>>

\* init() when localStorage cannot be used: the first statement of
\* ThemeManager.loadTheme throws, the exception leaves init() uncaught, and
\* nothing after it runs
PageInitThrows ==
  /\ pc = "loading"
  /\ ~storageOK
  /\ pc' = "error"
  /\ UNCHANGED <<htmlClasses, themeVars, menuVars, scrollVars, lazyVars,
                 copyVars, envVars, anchorVars>>

\* ------------------------------------------------------------------
\* Pages: what the document holds when the script starts
\* ------------------------------------------------------------------
NoOps == <<"none", "none">>
NoMenuOp == [ev |-> "none", arg |-> "", ran |-> "none"]

ThemePage ==
  /\ htmlClasses \in SUBSET {"theme-light", "theme-dark"}
  /\ localStorage \in StoredValues
  /\ activeBtns = {}
  /\ themeBtns \in SUBSET ThemeIds
  /\ osDark \in BOOLEAN
  /\ themeOps = NoOps

PlainThemePage ==
  /\ htmlClasses = {}
  /\ localStorage \in {Null, "auto"}
  /\ activeBtns = {}
  /\ themeBtns = ThemeIds
  /\ osDark = FALSE
  /\ themeOps = NoOps

MenuPage ==
  /\ navBtn \in BOOLEAN
  /\ navList \in BOOLEAN
  /\ navBtnClasses = {}
  /\ ariaExpanded \in IF navBtn THEN {Null, "false", "true"} ELSE {Null}
  /\ menuOps = <<NoMenuOp, NoMenuOp>>
  /\ menuSnap = <<<<FALSE, Null>>, <<FALSE, Null>>>>
  /\ menuChanged = FALSE

NoMenuPage ==
  /\ navBtn = FALSE
  /\ navList = FALSE
  /\ navBtnClasses = {}
  /\ ariaExpanded = Null
  /\ menuOps = <<NoMenuOp, NoMenuOp>>
  /\ menuSnap = <<<<FALSE, Null>>, <<FALSE, Null>>>>
  /\ menuChanged = FALSE

ScrollPage ==
  /\ scrollY \in Offsets
  /\ btn \in BOOLEAN
  /\ navbar \in BOOLEAN
  /\ btnClasses \in IF btn THEN SUBSET {"show"} ELSE {{}}
  /\ navbarClasses \in IF navbar THEN SUBSET {"scrolled"} ELSE {{}}
  /\ inThrottleB = FALSE /\ timerB = -1
  /\ inThrottleN = FALSE /\ timerN = -1
  /\ lastReadB = -1 /\ lastReadN = -1
  /\ sinceB = -1 /\ sinceN = -1
  /\ gapB = -1 /\ gapN = -1
  /\ lastEvtB = "none" /\ lastEvtN = "none"

NoScrollPage ==
  /\ scrollY = 0
  /\ btn = FALSE
  /\ navbar = FALSE
  /\ btnClasses = {}
  /\ navbarClasses = {}
  /\ inThrottleB = FALSE /\ timerB = -1
  /\ inThrottleN = FALSE /\ timerN = -1
  /\ lastReadB = -1 /\ lastReadN = -1
  /\ sinceB = -1 /\ sinceN = -1
  /\ gapB = -1 /\ gapN = -1
  /\ lastEvtB = "none" /\ lastEvtN = "none"

LazyPage ==
  /\ hasIO \in BOOLEAN
  /\ lazyImages \in SUBSET LazyIds
  /\ dataImg \in [LazyIds -> BOOLEAN]
  /\ observed = {}
  /\ rafPending = [e \in LazyIds |-> 0]
  /\ bgImage = [e \in LazyIds |-> FALSE]
  /\ loaded = [e \in LazyIds |-> FALSE]
  /\ reported = [e \in LazyIds |-> FALSE]
  /\ bgSets = [e \in LazyIds |-> 0]
  /\ lateEvent = FALSE

NoLazyPage ==
  /\ hasIO = TRUE
  /\ lazyImages = {}
  /\ dataImg = [e \in LazyIds |-> FALSE]
  /\ observed = {}
  /\ rafPending = [e \in LazyIds |-> 0]
  /\ bgImage = [e \in LazyIds |-> FALSE]
  /\ loaded = [e \in LazyIds |-> FALSE]
  /\ reported = [e \in LazyIds |-> FALSE]
  /\ bgSets = [e \in LazyIds |-> 0]
  /\ lateEvent = FALSE

CopyPage ==
  /\ codeBlock \in BOOLEAN
  /\ textContent = Null
  /\ copyClasses = {}
  /\ pendingWrites = 0
  /\ copyTimers = << >>
  /\ shownFor = 0
  /\ revertAfter = -1

NoCopyPage ==
  /\ codeBlock = FALSE
  /\ textContent = Null
  /\ copyClasses = {}
  /\ pendingWrites = 0
  /\ copyTimers = << >>
  /\ shownFor = 0
  /\ revertAfter = -1

\* a browser in which localStorage works
StorageWorks == storageOK = TRUE /\ inited = {} /\ listeners = {}
\* a browser in which it may be blocked or missing
AnyStorage == storageOK \in BOOLEAN /\ inited = {} /\ listeners = {}

\* the ids in the document; no click has happened
AnchorPage ==
  /\ pageIds \in SUBSET Ids
  /\ urlHash = << >>
  /\ anchorLog = NoClick

NoAnchorPage ==
  /\ pageIds = {}
  /\ urlHash = << >>
  /\ anchorLog = NoClick

\* a page from which any of the theme buttons, the toggle button, the
\* back-to-top control, the navbar, the lazy-marked elements and the code
\* block may be missing; its markup may carry 'show-mobile-nav' already,
\* and it is scrolled down when the script starts
AnySubsetMissing ==
  /\ htmlClasses \in SUBSET {"show-mobile-nav"}
  /\ localStorage = Null
  /\ activeBtns = {}
  /\ themeBtns \in {{}, ThemeIds}
  /\ osDark = FALSE
  /\ themeOps = NoOps
  /\ navBtn \in BOOLEAN
  /\ navList = TRUE
  /\ navBtnClasses = {}
  /\ ariaExpanded = Null
  /\ menuOps = <<NoMenuOp, NoMenuOp>>
  /\ menuSnap = <<<<FALSE, Null>>, <<FALSE, Null>>>>
  /\ menuChanged = FALSE
  /\ scrollY = showThreshold
  /\ btn \in BOOLEAN
  /\ navbar \in BOOLEAN
  /\ btnClasses = {}
  /\ navbarClasses = {}
  /\ inThrottleB = FALSE /\ timerB = -1
  /\ inThrottleN = FALSE /\ timerN = -1
  /\ lastReadB = -1 /\ lastReadN = -1
  /\ sinceB = -1 /\ sinceN = -1
  /\ gapB = -1 /\ gapN = -1
  /\ lastEvtB = "none" /\ lastEvtN = "none"
  /\ hasIO = TRUE
  /\ lazyImages \in {{}, LazyIds}
  /\ dataImg = [e \in LazyIds |-> TRUE]
  /\ observed = {}
  /\ rafPending = [e \in LazyIds |-> 0]
  /\ bgImage = [e \in LazyIds |-> FALSE]
  /\ loaded = [e \in LazyIds |-> FALSE]
  /\ reported = [e \in LazyIds |-> FALSE]
  /\ bgSets = [e \in LazyIds |-> 0]
  /\ lateEvent = FALSE
  /\ CopyPage
  /\ NoAnchorPage

\* a page at its top, with or without a navbar and no back-to-top control
TopOfPage ==
  /\ scrollY = 0
  /\ btn = FALSE
  /\ navbar \in BOOLEAN
  /\ btnClasses = {}
  /\ navbarClasses = {}
  /\ inThrottleB = FALSE /\ timerB = -1
  /\ inThrottleN = FALSE /\ timerN = -1
  /\ lastReadB = -1 /\ lastReadN = -1
  /\ sinceB = -1 /\ sinceN = -1
  /\ gapB = -1 /\ gapN = -1
  /\ lastEvtB = "none" /\ lastEvtN = "none"

\* ------------------------------------------------------------------
\* Specifications: the script on a page, under the events of one controller
\* ------------------------------------------------------------------
InitTheme ==
  pc = "loading" /\ AnyStorage /\ ThemePage /\ NoMenuPage /\ NoScrollPage /\ NoLazyPage
    /\ NoCopyPage /\ NoAnchorPage
NextTheme ==
  \/ PageInit
  \/ PageInitThrows
  \/ ClickLight
  \/ ClickDark
  \/ ClickAuto
  \/ LoadTheme
  \/ SchemeChange
SpecTheme == InitTheme /\ [][NextTheme]_vars

InitMenu ==
  pc = "loading" /\ StorageWorks /\ PlainThemePage /\ MenuPage /\ NoScrollPage
    /\ NoLazyPage /\ NoCopyPage /\ NoAnchorPage
NextMenu ==
  \/ PageInit
  \/ NavBtnClick
  \/ NavBtnKeydown
  \/ NavListClick
  \/ DocKeydown
  \/ OutsideClick
SpecMenu == InitMenu /\ [][NextMenu]_vars

InitScroll ==
  pc = "loading" /\ StorageWorks /\ PlainThemePage /\ NoMenuPage /\ ScrollPage
    /\ NoLazyPage /\ NoCopyPage /\ NoAnchorPage
NextScroll ==
  \/ PageInit
  \/ ScrollEvent
  \/ BackToTopClick
  \/ ThrottleTimeoutB
  \/ ThrottleTimeoutN
  \/ \E d \in ScrollSteps : Tick(d)
SpecScroll == InitScroll /\ [][NextScroll]_vars

InitLazy ==
  pc = "loading" /\ StorageWorks /\ PlainThemePage /\ NoMenuPage /\ NoScrollPage
    /\ LazyPage /\ NoCopyPage /\ NoAnchorPage
NextLazy ==
  \/ PageInit
  \/ IntersectionEvent
  \/ AnimationFrame
SpecLazy == InitLazy /\ [][NextLazy]_vars

InitCopy ==
  pc = "loading" /\ StorageWorks /\ PlainThemePage /\ NoMenuPage /\ NoScrollPage
    /\ NoLazyPage /\ CopyPage /\ NoAnchorPage
NextCopy ==
  \/ PageInit
  \/ CopyClick
  \/ WriteResolved
  \/ WriteRejected
  \/ CopyTimeout
  \/ \E d \in CopySteps : Tick(d)
SpecCopy == InitCopy /\ [][NextCopy]_vars

InitAnchor ==
  pc = "loading" /\ StorageWorks /\ PlainThemePage /\ NoMenuPage /\ TopOfPage
    /\ NoLazyPage /\ NoCopyPage /\ AnchorPage
NextAnchor ==
  \/ PageInit
  \/ AnchorClick
  \/ ThrottleTimeoutN
  \/ \E d \in ScrollSteps : Tick(d)
SpecAnchor == InitAnchor /\ [][NextAnchor]_vars

\* The script on a page with elements missing. A behaviour delivers the
\* events of one controller; the others are left as init() left them.
Quiet(c) ==
  CASE c = "ThemeManager" -> themeOps = <<"none", "init">>
    [] c = "MobileMenu" -> menuOps = <<NoMenuOp, NoMenuOp>>
    [] c = "Scroll" -> lastEvtB = "none" /\ lastEvtN = "none"
    [] c = "LazyLoader" -> \A e \in LazyIds : ~reported[e]
    [] c = "CodeCopy" -> pendingWrites = 0 /\ copyTimers = << >>
Undisturbed(c) ==
  \A d \in {"ThemeManager", "MobileMenu", "Scroll", "LazyLoader",
             "CodeCopy"} \ {c} : Quiet(d)

InitPage ==
  pc = "loading" /\ AnyStorage /\ AnySubsetMissing
NextPage ==
  \/ PageInit
  \/ PageInitThrows
  \/ Undisturbed("ThemeManager") /\ SchemeChange
  \/ Undisturbed("ThemeManager") /\ ClickDark
  \/ Undisturbed("MobileMenu") /\ NavBtnClick
  \/ Undisturbed("MobileMenu") /\ NavListClick
  \/ Undisturbed("MobileMenu") /\ DocKeydown
  \/ Undisturbed("Scroll") /\ ScrollEvent
  \/ Undisturbed("LazyLoader") /\ IntersectionEvent
  \/ Undisturbed("LazyLoader") /\ AnimationFrame
  \/ Undisturbed("CodeCopy") /\ CopyClick
  \/ Undisturbed("CodeCopy") /\ WriteResolved
  \/ Undisturbed("CodeCopy") /\ WriteRejected
SpecPage == InitPage /\ [][NextPage]_vars

\* ------------------------------------------------------------------
\* Claims
\* ------------------------------------------------------------------
AutoMode == Falsy(localStorage) \/ localStorage = "auto"
HasLight == "theme-light" \in htmlClasses
HasDark == "theme-dark" \in htmlClasses

\* C1: after init, whatever theme operations and OS color-scheme changes
\* follow, the root never carries both 'theme-light' and 'theme-dark'.
C1_AtMostOneThemeClass ==
  pc = "ready" => ~(HasLight /\ HasDark)

\* an OS change to dark was mirrored in automatic mode, and an explicit
\* choice made before it was replaced
C1_Witness ==
  /\ pc = "ready"
  /\ themeOps = <<"setAuto", "os">>
  /\ htmlClasses = {"theme-dark"}

\* C2 as stated: whenever the stored preference is 'auto' or absent, the
\* root carries neither theme class, also after OS color-scheme changes.
C2_AutoHasNeitherClass ==
  (pc = "ready" /\ AutoMode) => (~HasLight /\ ~HasDark)

\* C2 amended: whenever the stored preference is 'auto' or absent, the root
\* does not carry 'theme-light', and it carries 'theme-dark' exactly when
\* the latest theme operation was an OS color-scheme change to dark (so it
\* carries neither class right after setAutoTheme or loadTheme).
C2_AutoClassesFollowOS ==
  (pc = "ready" /\ AutoMode) =>
    /\ ~HasLight
    /\ HasDark <=> (themeOps[2] = "os" /\ osDark)

\* automatic mode with the dark class on the root
C2_Witness ==
  /\ pc = "ready" /\ AutoMode
  /\ themeOps[2] = "os" /\ osDark
  /\ HasDark

\* C3: an OS color-scheme change leaves root classes, stored preference and
\* active button alone while the stored preference is an explicit choice;
\* only when it is absent or 'auto' does the event add (matches) or remove
\* (no match) 'theme-dark', and it never writes the preference or the
\* buttons.
C3_ExplicitChoiceOverridesOS ==
  [][osDark' # osDark =>
       /\ UNCHANGED <<localStorage, activeBtns>>
       /\ IF AutoMode
          THEN htmlClasses' = IF osDark' THEN htmlClasses \cup {"theme-dark"}
                              ELSE htmlClasses \ {"theme-dark"}
          ELSE UNCHANGED htmlClasses]_vars

\* the OS turned dark while the user's choice was light, which stayed
C3_Witness ==
  /\ pc = "ready"
  /\ themeOps[2] = "os" /\ osDark
  /\ localStorage = "theme-light"
  /\ htmlClasses = {"theme-light"}

\* C4: loadTheme right after setLightTheme leaves 'theme-light' without
\* 'theme-dark'; right after setDarkTheme, 'theme-dark' without
\* 'theme-light'; right after setAutoTheme, neither class.
C4_ThemeRoundTrip ==
  /\ themeOps = <<"setLight", "load">> => (HasLight /\ ~HasDark)
  /\ themeOps = <<"setDark", "load">> => (HasDark /\ ~HasLight)
  /\ themeOps = <<"setAuto", "load">> => (~HasLight /\ ~HasDark)

\* a reload after choosing dark
C4_Witness ==
  /\ themeOps = <<"setDark", "load">>
  /\ htmlClasses = {"theme-dark"}
  /\ localStorage = "theme-dark"

\* C5: once no throttle timer is pending, the back-to-top control has
\* 'show' iff the scroll offset is >= 300 and the navbar has 'scrolled' iff
\* the offset is > 50.
C5_SettledScrollIsCurrent ==
  (pc = "ready" /\ timerB = -1 /\ timerN = -1) =>
    /\ btn => ("show" \in btnClasses <=> scrollY >= showThreshold)
    /\ navbar => ("scrolled" \in navbarClasses <=> scrollY > scrollThreshold)

\* C6: whenever a timer reverts a result label ('Copied!' or 'Failed') to
\* 'Copy', that label had been showing for exactly 2000 ms.
C6_ResultShownExactly2000 ==
  revertAfter \in {-1, CopyRevertDelay}

\* C7 as stated, with an IntersectionObserver: a lazy-marked element has no
\* background image before it is reported intersecting; once reported it is
\* unobserved, and when the queued animation frames have run it has its
\* image, set exactly once, and class 'loaded'.
C7_EveryReportedElementLoads ==
  hasIO =>
    \A e \in lazyImages :
      /\ ~reported[e] => (~bgImage[e] /\ ~loaded[e] /\ bgSets[e] = 0)
      /\ reported[e] => e \notin observed
      /\ bgSets[e] <= 1
      /\ (reported[e] /\ rafPending[e] = 0) =>
           (bgImage[e] /\ loaded[e] /\ bgSets[e] = 1)

\* C7 amended: the same for every lazy-marked element whose data-img is a
\* non-empty string; an element without one is unobserved when reported
\* intersecting and never receives an image or the class 'loaded'.
C7_LazyLoadIsOneShot ==
  hasIO =>
    \A e \in lazyImages :
      /\ ~reported[e] => (~bgImage[e] /\ ~loaded[e] /\ bgSets[e] = 0)
      /\ reported[e] => e \notin observed
      /\ bgSets[e] <= 1
      /\ (reported[e] /\ rafPending[e] = 0 /\ dataImg[e]) =>
           (bgImage[e] /\ loaded[e] /\ bgSets[e] = 1)
      /\ ~dataImg[e] => (~bgImage[e] /\ ~loaded[e] /\ rafPending[e] = 0)

\* an element was loaded once and the observer called back again afterwards
C7_Witness ==
  /\ hasIO /\ lateEvent
  /\ \E e \in lazyImages :
       reported[e] /\ dataImg[e] /\ loaded[e] /\ bgSets[e] = 1

\* C8: with the toggle button present, once a menu event has run toggle()
\* or close(), aria-expanded is 'true' iff the root carries
\* 'show-mobile-nav'.
C8_AriaMirrorsClass ==
  (pc = "ready" /\ navBtn /\ menuChanged) =>
    (ariaExpanded = "true" <=> IsOpen(menuState))

\* the menu was opened from the keyboard
C8_Witness ==
  /\ menuChanged /\ IsOpen(menuState) /\ ariaExpanded = "true"
  /\ menuOps[2].ev = "btnKeydown"

\* C9: after two toggles in a row, the 'show-mobile-nav' class and the
\* aria-expanded attribute have the values they had before the two.
C9_TwoTogglesRestore ==
  (menuOps[1].ran = "toggle" /\ menuOps[2].ran = "toggle") =>
    <<IsOpen(menuState), ariaExpanded>> = menuSnap[1]

\* C10: a click or one Enter/Space keydown on the button flips the
\* visibility once; a click on a link of the nav list, or Escape, leaves the
\* menu closed (closing it if it was open) and changes nothing if it was
\* closed.
C10_Activation ==
  LET last == menuOps[2]
      before == menuSnap[2]
      flips == \/ last.ev = "btnClick"
               \/ last.ev = "btnKeydown" /\ last.arg \in {"Enter", " "}
      closes == \/ last.ev = "navListClick" /\ last.arg = "link"
                \/ last.ev \in {"btnKeydown", "docKeydown"}
                     /\ last.arg = "Escape"
  IN  /\ flips => (IsOpen(menuState) = ~before[1])
      /\ closes => ~IsOpen(menuState)
      /\ (closes /\ ~before[1]) => ariaExpanded = before[2]

\* C12: the back-to-top control has 'show' iff the offset read by the
\* latest checkVisibility (at init or on a handled scroll event) is >= 300;
\* an offset of exactly 300 shows it.
C12_ShowIffAtLeast300 ==
  (pc = "ready" /\ btn) =>
    /\ lastReadB >= 0
    /\ "show" \in btnClasses <=> lastReadB >= showThreshold

\* a scroll event to exactly 300 was handled and the control shows
C12_Witness ==
  /\ pc = "ready" /\ btn
  /\ lastEvtB = "handled" /\ lastReadB = showThreshold
  /\ "show" \in btnClasses

\* C13: the navbar has 'scrolled' iff the offset read by the latest
\* checkScroll (at init or on a handled scroll event) is > 50; at exactly
\* 50 the class is absent.
C13_ScrolledIffAbove50 ==
  (pc = "ready" /\ navbar) =>
    /\ lastReadN >= 0
    /\ "scrolled" \in navbarClasses <=> lastReadN > scrollThreshold

\* a scroll event to exactly 50 was handled and took the class away
C13_Witness ==
  /\ pc = "ready" /\ navbar
  /\ lastEvtN = "handled" /\ lastReadN = scrollThreshold
  /\ gapN >= 0
  /\ "scrolled" \notin navbarClasses

\* C19: two consecutive runs of a throttled scroll handler are at least
\* 100 ms apart, and a scroll event that arrives while the handler's
\* throttle window is closed is handled at once.
C19_ThrottleSpacing ==
  /\ gapB = -1 \/ gapB >= ThrottleLimit
  /\ gapN = -1 \/ gapN >= ThrottleLimit
  /\ lastEvtB # "missed"
  /\ lastEvtN # "missed"

\* the handler ran twice, 100 ms apart, after events in between were dropped
C19_Witness ==
  /\ gapB = ThrottleLimit /\ lastEvtB = "handled"
  /\ gapN = ThrottleLimit /\ lastEvtN = "handled"

\* C18: once no clipboard write is in flight and no 2000 ms timer is
\* pending, the copy button's label is 'Copy' and it does not carry
\* 'copied'.
C18_ReturnsToIdle ==
  (pc = "ready" /\ textContent # Null /\ pendingWrites = 0
     /\ copyTimers = << >>) =>
    (textContent = "Copy" /\ "copied" \notin copyClasses)

\* the button is idle again after a result label was reverted
C18_Witness ==
  /\ pc = "ready" /\ pendingWrites = 0 /\ copyTimers = << >>
  /\ revertAfter >= 0
  /\ textContent = "Copy"

\* C20: the copy button carries 'copied' iff its label is 'Copied!'.
C20_CopiedClassMatchesLabel ==
  (pc = "ready" /\ textContent # Null) =>
    ("copied" \in copyClasses <=> textContent = "Copied!")

\* C14: without IntersectionObserver, after init no observer exists and
\* every lazy-marked element, whatever its attributes, has its background
\* image and the class 'loaded' once the queued animation frames have run.
C14_FallbackLoadsEveryElement ==
  (~hasIO /\ pc = "ready") =>
    /\ observed = {}
    /\ \A e \in lazyImages :
         rafPending[e] = 0 => (bgImage[e] /\ loaded[e])

\* C14 amended: without IntersectionObserver, after init no observer exists;
\* every lazy-marked element with a non-empty data-img has its background
\* image set exactly once and the class 'loaded' once the queued animation
\* frames have run; an element without data-img gets no frame, no image
\* and no class.
C14_FallbackLoadsElementsWithUrl ==
  (~hasIO /\ pc = "ready") =>
    /\ observed = {}
    /\ \A e \in lazyImages :
         /\ (dataImg[e] /\ rafPending[e] = 0) =>
              (bgImage[e] /\ loaded[e] /\ bgSets[e] = 1)
         /\ ~dataImg[e] => (~bgImage[e] /\ ~loaded[e] /\ rafPending[e] = 0)
    /\ \A e \in LazyIds \ lazyImages : ~bgImage[e] /\ ~loaded[e]

\* the fallback ran with both kinds of element and the frames have run
C14_Witness ==
  /\ ~hasIO /\ pc = "ready"
  /\ \E e \in lazyImages : dataImg[e] /\ loaded[e] /\ bgImage[e]
  /\ \E e \in lazyImages : ~dataImg[e]
  /\ \A e \in LazyIds : rafPending[e] = 0

\* C11: when the menu is open, a click outside the navigation closes it:
\* 'show-mobile-nav' is removed and aria-expanded becomes 'false'.
C11_OutsideClickCloses ==
  (menuOps[2].ev = "outsideClick" /\ menuSnap[2][1]) =>
    (~IsOpen(menuState) /\ ariaExpanded = "false")

\* C16: where localStorage cannot be used, initialization surfaces no
\* error and the six components after ThemeManager are still initialized.
C16_StorageFailureIsSilent ==
  (~storageOK /\ pc # "loading") =>
    (pc = "ready" /\ (Controllers \ {"ThemeManager"}) \subseteq inited)

\* C15: for a click in a link whose href begins with '#', the listener
\* calls preventDefault, scrollTo and pushState iff the href is not the
\* bare '#' and its fragment is the id of an element of the document;
\* otherwise it calls none of them.
C15_InterceptsIffResolves ==
  anchorLog.clicked /\ anchorLog.href # NoLink =>
    LET intercept == anchorLog.href # <<"#">> /\ anchorLog.resolves
    IN  /\ anchorLog.prevented <=> intercept
        /\ anchorLog.scrolled <=> intercept
        /\ anchorLog.pushed <=> intercept

\* the listeners init() bound for controller c
Bound(c) == {l \in listeners : l[1] = c}
\* a controller's part of the page is as the markup had it
ThemeUntouched ==
  localStorage = Null /\ ~HasLight /\ ~HasDark /\ activeBtns = {}
MenuUntouched ==
  /\ navBtnClasses = {} /\ ariaExpanded = Null /\ ~menuChanged
  /\ menuOps[2] # NoMenuOp =>
       /\ menuOps[2].ran = "none"
       /\ <<IsOpen(menuState), ariaExpanded>> = menuSnap[2]
BackToTopUntouched ==
  btnClasses = {} /\ ~inThrottleB /\ timerB = -1 /\ lastReadB = -1
NavbarScrollUntouched ==
  navbarClasses = {} /\ ~inThrottleN /\ timerN = -1 /\ lastReadN = -1
LazyLoaderUntouched ==
  /\ observed = {}
  /\ \A e \in LazyIds : rafPending[e] = 0 /\ ~bgImage[e] /\ ~loaded[e]
CodeCopyUntouched ==
  /\ textContent = Null /\ copyClasses = {}
  /\ pendingWrites = 0 /\ copyTimers = << >>

====
